---------------------------- MODULE Spec2Model ----------------------------
(***************************************************************************)
(* State-machine model of 0x02-redis_basic: the Cache facade               *)
(* (exercise.py: count_calls, call_history, Cache.store/get/get_str/       *)
(* get_int) and the cached page fetcher (web.py: count_url_access,         *)
(* cache_page, get_page), both talking to one Redis database.              *)
(*                                                                         *)
(* Texts are sequences of Unicode code points, byte strings are sequences  *)
(* of 0..255.  The Redis database is a function from key names to entries; *)
(* an entry is a string (bytes, with an optional expiry time) or a list of *)
(* byte strings.                                                           *)
(***************************************************************************)
EXTENDS Integers, Sequences, FiniteSets, TLC

(***************************************************************************)
(* Bounds of the model.                                                    *)
(***************************************************************************)
\* Total number of handler invocations (Cache(), store, get*, get_page).
MaxOps == 3
\* The clock stops advancing here.
MaxTime == 12

(***************************************************************************)
(* Program constants.                                                      *)
(***************************************************************************)
\* @cache_page(expiration=10) on get_page.
Expiration == 10

\* An entry without expiry (SET), as opposed to SETEX.
NoExpiry == -1

(***************************************************************************)
(* Conversions: text <-> bytes, numbers <-> text, repr().                  *)
(***************************************************************************)
RECURSIVE Concat(_)
\* Concatenation of a sequence of sequences.
Concat(ss) == IF ss = <<>> THEN <<>> ELSE Head(ss) \o Concat(Tail(ss))

IsSurrogate(cp) == cp >= 55296 /\ cp <= 57343

\* UTF-8 encoding of one code point (the caller excludes surrogates).
Utf8Char(cp) ==
    IF cp < 128 THEN <<cp>>
    ELSE IF cp < 2048 THEN <<192 + (cp \div 64), 128 + (cp % 64)>>
    ELSE IF cp < 65536
         THEN <<224 + (cp \div 4096), 128 + ((cp \div 64) % 64), 128 + (cp % 64)>>
    ELSE <<240 + (cp \div 262144), 128 + ((cp \div 4096) % 64),
           128 + ((cp \div 64) % 64), 128 + (cp % 64)>>

\* str.encode("utf-8") with errors="strict": fails on a lone surrogate.
Utf8Encode(text) ==
    IF \E i \in 1..Len(text) : IsSurrogate(text[i])
    THEN [ok |-> FALSE, val |-> <<>>]
    ELSE [ok |-> TRUE, val |-> Concat([i \in 1..Len(text) |-> Utf8Char(text[i])])]

IsCont(b) == b >= 128 /\ b <= 191

RECURSIVE Utf8DecodeFrom(_, _)
\* bytes.decode("utf-8") with errors="strict", reading from index i on.
Utf8DecodeFrom(bs, i) ==
    IF i > Len(bs) THEN [ok |-> TRUE, val |-> <<>>]
    ELSE LET b == bs[i]
             n == IF b < 128 THEN 1
                  ELSE IF b >= 194 /\ b <= 223 THEN 2
                  ELSE IF b >= 224 /\ b <= 239 THEN 3
                  ELSE IF b >= 240 /\ b <= 244 THEN 4
                  ELSE 0
             fits == n > 0 /\ i + n - 1 <= Len(bs)
                     /\ \A j \in (i + 1)..(i + n - 1) : IsCont(bs[j])
             cp == IF n = 1 THEN b
                   ELSE IF n = 2 THEN (b - 192) * 64 + (bs[i + 1] - 128)
                   ELSE IF n = 3
                        THEN (b - 224) * 4096 + (bs[i + 1] - 128) * 64
                             + (bs[i + 2] - 128)
                   ELSE (b - 240) * 262144 + (bs[i + 1] - 128) * 4096
                        + (bs[i + 2] - 128) * 64 + (bs[i + 3] - 128)
             valid == fits /\ ~IsSurrogate(cp)
                      /\ (n = 3 => cp >= 2048)
                      /\ (n = 4 => cp >= 65536 /\ cp <= 1114111)
         IN IF ~valid THEN [ok |-> FALSE, val |-> <<>>]
            ELSE LET rest == Utf8DecodeFrom(bs, i + n)
                 IN IF rest.ok THEN [ok |-> TRUE, val |-> <<cp>> \o rest.val]
                    ELSE rest

Utf8Decode(bs) == Utf8DecodeFrom(bs, 1)

RECURSIVE NatToText(_)
\* Decimal digits of a natural number, as text.
NatToText(n) ==
    IF n < 10 THEN <<48 + n>> ELSE NatToText(n \div 10) \o <<48 + (n % 10)>>

\* repr() of an int.
IntToText(n) == IF n < 0 THEN <<45>> \o NatToText(0 - n) ELSE NatToText(n)

\* repr() of a float held in tenths (15 is 1.5, 20 is 2.0), non-negative.
FloatToText(f) == NatToText(f \div 10) \o <<46>> \o NatToText(f % 10)

IsDigit(b) == b >= 48 /\ b <= 57

\* The bytes Python's strip() removes: space, \t, \n, \v, \f, \r.
IsSpace(b) == b = 32 \/ (b >= 9 /\ b <= 13)

RECURSIVE DigitsValue(_)
\* Value of a digit string in which single underscores may separate digits.
DigitsValue(ds) ==
    IF ds = <<>> THEN 0
    ELSE LET last == ds[Len(ds)]
             init == SubSeq(ds, 1, Len(ds) - 1)
         IN IF last = 95 THEN DigitsValue(init)
            ELSE DigitsValue(init) * 10 + (last - 48)

\* int(d) for a bytes object d: optional surrounding whitespace, an optional
\* sign, then digits with single underscores between them; else ValueError.
ParseInt(bs) ==
    LET idx   == {i \in 1..Len(bs) : ~IsSpace(bs[i])}
        lo    == IF idx = {} THEN 1 ELSE CHOOSE i \in idx : \A j \in idx : i <= j
        hi    == IF idx = {} THEN 0 ELSE CHOOSE i \in idx : \A j \in idx : i >= j
        core  == SubSeq(bs, lo, hi)
        signd == core # <<>> /\ (core[1] = 43 \/ core[1] = 45)
        ds    == IF signd THEN Tail(core) ELSE core
        wellFormed ==
            /\ ds # <<>>
            /\ IsDigit(ds[1]) /\ IsDigit(ds[Len(ds)])
            /\ \A i \in 1..Len(ds) : IsDigit(ds[i]) \/ ds[i] = 95
            /\ \A i \in 1..(Len(ds) - 1) : ~(ds[i] = 95 /\ ds[i + 1] = 95)
    IN IF ~wellFormed THEN [ok |-> FALSE, val |-> 0]
       ELSE [ok |-> TRUE,
             val |-> IF signd /\ core[1] = 45 THEN 0 - DigitsValue(ds)
                     ELSE DigitsValue(ds)]

\* Lower-case hexadecimal digit.
HexDigit(n) == IF n < 10 THEN 48 + n ELSE 87 + n

\* repr() of one character of a str (single-quoted form; the model's texts
\* hold no quote characters).
ReprChar(cp) ==
    IF cp = 92 THEN <<92, 92>>
    ELSE IF cp = 9 THEN <<92, 116>>
    ELSE IF cp = 10 THEN <<92, 110>>
    ELSE IF cp = 13 THEN <<92, 114>>
    ELSE IF cp >= 32 /\ cp <= 126 THEN <<cp>>
    ELSE IF cp < 256 /\ ~(cp >= 161 /\ cp # 173)
         THEN <<92, 120, HexDigit(cp \div 16), HexDigit(cp % 16)>>
    ELSE IF IsSurrogate(cp)
         THEN <<92, 117, HexDigit(cp \div 4096), HexDigit((cp \div 256) % 16),
                HexDigit((cp \div 16) % 16), HexDigit(cp % 16)>>
    ELSE <<cp>>

\* repr() of one byte of a bytes object.
ReprByte(b) ==
    IF b = 92 THEN <<92, 92>>
    ELSE IF b = 39 THEN <<92, 39>>
    ELSE IF b = 9 THEN <<92, 116>>
    ELSE IF b = 10 THEN <<92, 110>>
    ELSE IF b = 13 THEN <<92, 114>>
    ELSE IF b >= 32 /\ b <= 126 THEN <<b>>
    ELSE <<92, 120, HexDigit(b \div 16), HexDigit(b % 16)>>

\* A Python value: text (code points), bytes, an int <<n>> or a float <<f>>
\* held in tenths.
StrVal(t)   == [kind |-> "str", val |-> t]
BytesVal(b) == [kind |-> "bytes", val |-> b]
IntVal(n)   == [kind |-> "int", val |-> <<n>>]
FloatVal(f) == [kind |-> "float", val |-> <<f>>]

\* repr() of a value.
Repr(d) ==
    IF d.kind = "str"
    THEN <<39>> \o Concat([i \in 1..Len(d.val) |-> ReprChar(d.val[i])]) \o <<39>>
    ELSE IF d.kind = "bytes"
    THEN <<98, 39>> \o Concat([i \in 1..Len(d.val) |-> ReprByte(d.val[i])]) \o <<39>>
    ELSE IF d.kind = "int" THEN IntToText(d.val[1])
    ELSE FloatToText(d.val[1])

\* str(args) for the one-argument tuple (data,).
ArgsRepr(d) == <<40>> \o Repr(d) \o <<44, 41>>

\* What the Redis client puts on the wire for a value: bytes as they are,
\* int and float through repr(), str as UTF-8 (which may fail).
EncodeValue(d) ==
    IF d.kind = "bytes" THEN [ok |-> TRUE, val |-> d.val]
    ELSE IF d.kind = "str" THEN Utf8Encode(d.val)
    ELSE Utf8Encode(Repr(d))


(***************************************************************************)
(* The Redis database: the commands the program issues.                    *)
(***************************************************************************)
\* The database without any key.
EmptyDb == [k \in {} |-> 0]

\* Faulty variant of FlushDb: the flush is left out.  C10 fails with it.
FlushNothing(d) == d

\* FLUSHDB: every key goes.
FlushDb(d) == EmptyDb

StringEntry(bs, exp) == [type |-> "string", val |-> bs, exp |-> exp]

ListEntry(items) == [type |-> "list", val |-> items, exp |-> NoExpiry]

Put(d, k, e) == [x \in DOMAIN d \cup {k} |-> IF x = k THEN e ELSE d[x]]

\* SET key value: overwrite, no expiry.
RedisSet(d, k, bs) == Put(d, k, StringEntry(bs, NoExpiry))

\* SETEX key ttl value at time t: overwrite, expiring ttl later.
RedisSetex(d, k, ttl, bs, t) == Put(d, k, StringEntry(bs, t + ttl))

\* GET key: the bytes, or None.
RedisGet(d, k) ==
    IF k \in DOMAIN d THEN [found |-> TRUE, val |-> d[k].val]
    ELSE [found |-> FALSE, val |-> <<>>]

\* An INCR whose increment is lost.
RedisIncrLost(d, k) == d

\* INCR key: the decimal text at key plus one; an absent key counts as 0.
RedisIncr(d, k) ==
    IF k \in DOMAIN d
    THEN Put(d, k, [d[k] EXCEPT
                      !.val = Utf8Encode(IntToText(ParseInt(d[k].val).val + 1)).val])
    ELSE Put(d, k, StringEntry(<<49>>, NoExpiry))

\* Faulty variant of RedisRpush: LPUSH, which prepends.  C1 fails with it.
RedisLpush(d, k, bs) ==
    Put(d, k, ListEntry(<<bs>> \o (IF k \in DOMAIN d THEN d[k].val ELSE <<>>)))

\* An RPUSH done as a read and a write back, the list it read being stale:
\* the appends made meanwhile are lost.
RedisRpushOverwriting(d, k, bs) == Put(d, k, ListEntry(<<bs>>))

\* RPUSH key value: append to the list at key.
RedisRpush(d, k, bs) ==
    Put(d, k, ListEntry((IF k \in DOMAIN d THEN d[k].val ELSE <<>>) \o <<bs>>))

\* LRANGE key 0 -1: the whole list.
RedisLrange(d, k) == IF k \in DOMAIN d THEN d[k].val ELSE <<>>

\* The keys still alive at time t: an entry with expiry e is gone from e on.
Expire(d, t) ==
    [k \in {x \in DOMAIN d : d[x].exp = NoExpiry \/ d[x].exp > t} |-> d[k]]

(***************************************************************************)
(* Names and inputs.                                                       *)
(***************************************************************************)
\* method.__qualname__ of the decorated store.
QualName == "Cache.store"

InputsKey == QualName \o ":inputs"

OutputsKey == QualName \o ":outputs"

CountKey(url) == "count:" \o url

CacheKey(url) == "cache:" \o url

\* The methods replay is asked about: the decorated store, and get, which
\* nothing records.
QualNames == {QualName, "Cache.get"}

\* The qualified name as text: 'Cache.store' or 'Cache.get'.
QualText(q) ==
    IF q = QualName THEN <<67, 97, 99, 104, 101, 46, 115, 116, 111, 114, 101>>
    ELSE <<67, 97, 99, 104, 101, 46, 103, 101, 116>>

\* The keys uuid.uuid4() may produce (short stand-ins for the 36-character form).
UUIDs == {"k1", "k2"}

\* str(key) of a generated key.
KeyText(k) == IF k = "k1" THEN <<107, 49>> ELSE <<107, 50>>

\* Values handed to store: '', 'é', a lone surrogate '\udc80' (not encodable),
\* b'', -3 and 1.5.
StoreValues ==
    {StrVal(<<>>), StrVal(<<233>>), StrVal(<<56448>>), BytesVal(<<>>),
     IntVal(0 - 3), FloatVal(15)}

URLs == {"http://x/a", "http://x/b"}

\* What requests.get(url) may bring back: a response (status, body text) or
\* a network error.  Bodies: 'é', '' and 'no'.
Responses ==
    {[kind |-> "response", status |-> 200, body |-> <<233>>],
     [kind |-> "response", status |-> 200, body |-> <<>>],
     [kind |-> "response", status |-> 404, body |-> <<110, 111>>],
     [kind |-> "neterr", status |-> 0, body |-> <<>>]}

\* Conversion functions handed to get: none, d.decode("utf-8"), int(d), and
\* one that raises on every input.
ApplyConv(fn, bs) ==
    IF fn = "utf8"
    THEN LET r == Utf8Decode(bs)
         IN [ok |-> r.ok, val |-> StrVal(r.val), exc |-> "UnicodeDecodeError"]
    ELSE IF fn = "int"
    THEN LET r == ParseInt(bs)
         IN [ok |-> r.ok, val |-> IntVal(r.val), exc |-> "ValueError"]
    ELSE [ok |-> FALSE, val |-> IntVal(0), exc |-> "RuntimeError"]

\* How far the clock may jump in one step.
TimeSteps == {5, 6}

NumProcs == 2

Procs == 1..NumProcs

(***************************************************************************)
(* State.                                                                  *)
(***************************************************************************)
VARIABLES
    db,         \* the Redis database: key -> entry
    now,        \* the clock
    facades,    \* number of Cache instances constructed
    pc,         \* per process: where it is inside store ("idle" outside)
    frame,      \* per process: locals of the store invocation in progress
    ret,        \* per process: outcome of its last finished call
    ops,        \* number of calls made so far
    calls,      \* log: the store calls since the last flush, in call order
    pageCalls,  \* log: get_page invocations per URL since the last flush
    httpCalls,  \* log: requests.get invocations per URL
    lastFetch,  \* log: per URL, the last call that fetched and returned
    faulted     \* log: a backend command failed since the last flush

vars == <<db, now, facades, pc, frame, ret, ops, calls, pageCalls, httpCalls,
          lastFetch, faulted>>

NoneVal == [kind |-> "none", val |-> <<>>]

\* The outcome of a call op(arg): what it returned, or the exception raised;
\* conv: the conversion function ran; http, status: what requests.get brought;
\* dropped: the keys a flush removed; fn: the conversion function passed;
\* seq: the number of the call among all calls made; out: the lines printed;
\* cmds: the backend commands issued, in order.
Outcome(op, arg, outcome, val, exc) ==
    [op |-> op, arg |-> arg, outcome |-> outcome, val |-> val, exc |-> exc,
     fn |-> "none", conv |-> FALSE, http |-> "none", status |-> 0,
     dropped |-> {}, seq |-> 0, out |-> <<>>, cmds |-> <<>>]

Returned(op, arg, val) == Outcome(op, arg, "return", val, "")

Raised(op, arg, exc) == Outcome(op, arg, "raise", NoneVal, exc)

\* The locals of a store invocation under way; cmds is the list of backend
\* commands it has issued and count0 the call counter it found when it began.
NoFrame == [data |-> NoneVal, key |-> "", idx |-> 0, cmds |-> <<>>, count0 |-> 0]

NoFetch == [at |-> 0 - 1, body |-> <<>>]

Init ==
    /\ db = EmptyDb
    /\ now = 0
    /\ facades = 0
    /\ pc = [p \in Procs |-> "idle"]
    /\ frame = [p \in Procs |-> NoFrame]
    /\ ret = [p \in Procs |-> Returned("none", "", NoneVal)]
    /\ ops = 0
    /\ calls = <<>>
    /\ pageCalls = [u \in URLs |-> 0]
    /\ httpCalls = [u \in URLs |-> 0]
    /\ lastFetch = [u \in URLs |-> NoFetch]
    /\ faulted = FALSE

\* int(r.get(key) or 0): the value of a counter, 0 when the key is absent
\* (or holds empty bytes).
CounterValue(d, k) ==
    IF k \in DOMAIN d /\ d[k].val # <<>> THEN ParseInt(d[k].val).val ELSE 0


\* "{qualname} was called {n} times:"
ReplayHeader(q, n) ==
    QualText(q)
    \o <<32, 119, 97, 115, 32, 99, 97, 108, 108, 101, 100, 32>>
    \o IntToText(n)
    \o <<32, 116, 105, 109, 101, 115, 58>>

(***************************************************************************)
(* Bookkeeping shared by the actions.                                      *)
(***************************************************************************)
\* Process p's call ends: the outcome is recorded and p is idle again.
Finish(p, outcome) ==
    /\ ret' = [ret EXCEPT ![p] = [outcome EXCEPT !.seq = ops']]
    /\ pc' = [pc EXCEPT ![p] = "idle"]
    /\ frame' = [frame EXCEPT ![p] = NoFrame]

\* The entry of the call log that belongs to p's invocation gets status st.
Logged(p, st, k) ==
    IF frame[p].idx = 0 THEN calls
    ELSE [calls EXCEPT ![frame[p].idx] = [@ EXCEPT !.status = st, !.key = k]]

\* The entry of the call log for p's returned invocation: its key, and the
\* index n at which the key went into the outputs history.
LoggedReturn(p, k, n) ==
    IF frame[p].idx = 0 THEN calls
    ELSE [calls EXCEPT ![frame[p].idx] =
            [@ EXCEPT !.status = "returned", !.key = k, !.pos = n]]

\* The commands p's invocation has issued once it issues c.
Issued(p, c) == Append(frame[p].cmds, c)

\* A call may start: p is idle and the budget of calls is not used up.
MayCall(p) == pc[p] = "idle" /\ ops < MaxOps

(***************************************************************************)
(* Cache.__init__: connect and FLUSHDB.                                    *)
(***************************************************************************)
CacheInit(p) ==
    /\ MayCall(p)
    /\ ops' = ops + 1
    /\ \/ \* flushdb() raises: no instance comes into being
          /\ Finish(p, Raised("Cache", "", "ConnectionError"))
          /\ faulted' = TRUE
          /\ UNCHANGED <<db, now, facades, calls, pageCalls, httpCalls, lastFetch>>
       \/ /\ db' = FlushDb(db)
          /\ facades' = facades + 1
          /\ ret' = [ret EXCEPT ![p] =
                       [Returned("Cache", "", NoneVal) EXCEPT
                          !.dropped = DOMAIN db, !.seq = ops']]
          /\ calls' = <<>>
          /\ frame' = [q \in Procs |-> [frame[q] EXCEPT !.idx = 0]]
          /\ pageCalls' = [u \in URLs |-> 0]
          /\ lastFetch' = [u \in URLs |-> NoFetch]
          /\ faulted' = FALSE
          /\ UNCHANGED <<now, pc, httpCalls>>

(***************************************************************************)
(* Cache.store under @call_history and @count_calls, one backend command   *)
(* per step, in the order the wrappers issue them.                         *)
(***************************************************************************)
\* call_history.wrapper: rpush(input_key, str(args)), then on to the wrapped
\* method.
StoreCall(p, data) ==
    /\ MayCall(p)
    /\ facades >= 1
    /\ ops' = ops + 1
    /\ \/ /\ Finish(p, [Raised("store", "", "ConnectionError")
                          EXCEPT !.cmds = <<"RPUSH inputs">>])
          /\ calls' = Append(calls, [data |-> data, key |-> "", pos |-> 0,
                                     status |-> "inputs_failed"])
          /\ faulted' = TRUE
          /\ UNCHANGED db
       \/ /\ db' = RedisRpush(db, InputsKey, Utf8Encode(ArgsRepr(data)).val)
          /\ calls' = Append(calls, [data |-> data, key |-> "", pos |-> 0,
                                     status |-> "running"])
          /\ frame' = [frame EXCEPT ![p] =
                         [data |-> data, key |-> "", idx |-> Len(calls) + 1,
                          cmds |-> <<"RPUSH inputs">>,
                          count0 |-> CounterValue(db, QualName)]]
          /\ pc' = [pc EXCEPT ![p] = "incr"]
          /\ UNCHANGED <<ret, faulted>>
    /\ UNCHANGED <<now, facades, pageCalls, httpCalls, lastFetch>>

\* A store left undecorated by count_calls: on to store itself, no INCR.
StoreIncrSkipped(p) ==
    /\ pc[p] = "incr"
    /\ pc' = [pc EXCEPT ![p] = "set"]
    /\ UNCHANGED <<db, now, facades, frame, ret, ops, calls, pageCalls,
                   httpCalls, lastFetch, faulted>>

\* count_calls.wrapper: incr(method.__qualname__), then on to store itself.
StoreIncr(p) ==
    /\ pc[p] = "incr"
    /\ ops' = ops
    /\ \/ /\ Finish(p, [Raised("store", "", "ConnectionError")
                          EXCEPT !.cmds = Issued(p, "INCR")])
          /\ calls' = Logged(p, "incr_failed", "")
          /\ faulted' = TRUE
          /\ UNCHANGED db
       \/ /\ db' = RedisIncr(db, QualName)
          /\ pc' = [pc EXCEPT ![p] = "set"]
          /\ frame' = [frame EXCEPT ![p].cmds = Issued(p, "INCR")]
          /\ UNCHANGED <<ret, calls, faulted>>
    /\ UNCHANGED <<now, facades, pageCalls, httpCalls, lastFetch>>

\* A SET whose failure leaves the value written all the same.
StoreSetWritingOnFailure(p) ==
    /\ pc[p] = "set"
    /\ ops' = ops
    /\ LET enc == EncodeValue(frame[p].data)
       IN \/ /\ ~enc.ok
             /\ Finish(p, [Raised("store", "", "UnicodeEncodeError")
                             EXCEPT !.cmds = Issued(p, "SET")])
             /\ calls' = Logged(p, "set_failed", "")
             /\ UNCHANGED <<db, faulted>>
          \/ /\ enc.ok
             /\ Finish(p, [Raised("store", "", "ConnectionError")
                             EXCEPT !.cmds = Issued(p, "SET")])
             /\ calls' = Logged(p, "set_failed", "")
             /\ faulted' = TRUE
             /\ \E k \in UUIDs : db' = RedisSet(db, k, enc.val)
          \/ /\ enc.ok
             /\ \E k \in UUIDs :
                   /\ db' = RedisSet(db, k, enc.val)
                   /\ frame' = [frame EXCEPT ![p].key = k,
                                             ![p].cmds = Issued(p, "SET")]
                   /\ calls' = Logged(p, "written", k)
             /\ pc' = [pc EXCEPT ![p] = "hist_out"]
             /\ UNCHANGED <<ret, faulted>>
    /\ UNCHANGED <<now, facades, pageCalls, httpCalls, lastFetch>>

\* Cache.store: key = str(uuid.uuid4()); set(key, data); return key.
StoreSet(p) ==
    /\ pc[p] = "set"
    /\ ops' = ops
    /\ LET enc == EncodeValue(frame[p].data)
       IN \/ \* the client cannot encode the value
             /\ ~enc.ok
             /\ Finish(p, [Raised("store", "", "UnicodeEncodeError")
                             EXCEPT !.cmds = Issued(p, "SET")])
             /\ calls' = Logged(p, "set_failed", "")
             /\ UNCHANGED <<db, faulted>>
          \/ \* the command fails
             /\ enc.ok
             /\ Finish(p, [Raised("store", "", "ConnectionError")
                             EXCEPT !.cmds = Issued(p, "SET")])
             /\ calls' = Logged(p, "set_failed", "")
             /\ faulted' = TRUE
             /\ UNCHANGED db
          \/ /\ enc.ok
             /\ \E k \in UUIDs :
                   /\ db' = RedisSet(db, k, enc.val)
                   /\ frame' = [frame EXCEPT ![p].key = k,
                                             ![p].cmds = Issued(p, "SET")]
                   /\ calls' = Logged(p, "written", k)
             /\ pc' = [pc EXCEPT ![p] = "hist_out"]
             /\ UNCHANGED <<ret, faulted>>
    /\ UNCHANGED <<now, facades, pageCalls, httpCalls, lastFetch>>

\* call_history.wrapper, after the wrapped method returned:
\* rpush(output_key, str(output)); return output.
StoreHistOut(p) ==
    /\ pc[p] = "hist_out"
    /\ ops' = ops
    /\ \/ /\ Finish(p, [Raised("store", "", "ConnectionError")
                          EXCEPT !.cmds = Issued(p, "RPUSH outputs")])
          /\ calls' = Logged(p, "outputs_failed", "")
          /\ faulted' = TRUE
          /\ UNCHANGED db
       \/ /\ db' = RedisRpush(db, OutputsKey, Utf8Encode(KeyText(frame[p].key)).val)
          /\ Finish(p, [Returned("store", "", StrVal(KeyText(frame[p].key)))
                          EXCEPT !.cmds = Issued(p, "RPUSH outputs")])
          /\ calls' = LoggedReturn(p, frame[p].key,
                                   Len(RedisLrange(db, OutputsKey)) + 1)
          /\ UNCHANGED faulted
    /\ UNCHANGED <<now, facades, pageCalls, httpCalls, lastFetch>>

(***************************************************************************)
(* Cache.get, get_str, get_int.                                            *)
(***************************************************************************)
\* Faulty variant of Missing: `if not data`, which also takes empty bytes
\* for a missing key.  C5 fails with it.
MissingOrEmpty(data) == ~data.found \/ data.val = <<>>

\* Faulty variant of Missing: no test for None at all.  C7 fails with it.
MissingNever(data) == FALSE

\* `if data is None`.
Missing(data) == ~data.found

\* get(key, fn), reported under the name op of the method called.
GetAs(p, op, key, fn) ==
    /\ MayCall(p)
    /\ facades >= 1
    /\ ops' = ops + 1
    /\ LET data == RedisGet(db, key)
       IN \/ \* self._redis.get(key) fails
             /\ Finish(p, [Raised(op, key, "ConnectionError") EXCEPT !.fn = fn])
             /\ faulted' = TRUE
          \/ /\ Missing(data)
             /\ Finish(p, [Returned(op, key, NoneVal) EXCEPT !.fn = fn])
             /\ UNCHANGED faulted
          \/ /\ ~Missing(data)
             /\ fn = "none"
             /\ Finish(p, Returned(op, key, BytesVal(data.val)))
             /\ UNCHANGED faulted
          \/ /\ ~Missing(data)
             /\ fn # "none"
             /\ LET r == ApplyConv(fn, data.val)
                IN Finish(p, [(IF r.ok THEN Returned(op, key, r.val)
                               ELSE Raised(op, key, r.exc))
                                EXCEPT !.conv = TRUE, !.fn = fn])
             /\ UNCHANGED faulted
    /\ UNCHANGED <<db, now, facades, calls, pageCalls, httpCalls, lastFetch>>

\* get(key) and get(key, fn) with a function that always raises.
Get(p, key, fn) == GetAs(p, "get", key, fn)

\* get_str(key): get(key, fn=lambda d: d.decode("utf-8")).
GetStr(p, key) == GetAs(p, "get_str", key, "utf8")

\* Faulty variant of GetInt: the conversion of get_str.  C8 fails with it.
GetIntDecoding(p, key) == GetAs(p, "get_int", key, "utf8")

\* get_int(key): get(key, fn=lambda d: int(d)).
GetInt(p, key) == GetAs(p, "get_int", key, "int")

(***************************************************************************)
(* get_page under @cache_page(expiration=10) (outer) and @count_url_access *)
(* (inner).                                                                *)
(***************************************************************************)
\* `if cached:` -- None and the empty bytes object are both false.
CacheHit(cached) == cached.found /\ cached.val # <<>>

\* count_url_access.wrapper: r.incr(f"count:{url}"), then the wrapped method.
CountUrlAccess(d, url) == RedisIncr(d, CountKey(url))

\* Faulty variant of CacheWrite: the entry is written under the URL itself,
\* not under cache_key.  C3 fails with it.
CacheWriteUnderUrl(d, url, result, t) ==
    RedisSetex(d, url, Expiration, Utf8Encode(result).val, t)

\* Faulty variant of CacheWrite: SET, so the entry never expires.  C4 fails
\* with it.
CacheWriteForever(d, url, result, t) ==
    RedisSet(d, CacheKey(url), Utf8Encode(result).val)

\* cache_page's wrapper on a miss, after method(url) returned result:
\* r.setex(cache_key, expiration, result).
CacheWrite(d, url, result, t) ==
    RedisSetex(d, CacheKey(url), Expiration, Utf8Encode(result).val, t)

\* Faulty variant of AfterFetch: a request that raised is cached as an empty
\* page.  C6 fails with it.
AfterFetchCachingFailure(d, url, resp, t) ==
    CacheWrite(CountUrlAccess(d, url), url, resp.body, t)

\* The database after the miss path ran with what requests.get brought:
\* counted, and cached unless the request raised.
AfterFetch(d, url, resp, t) ==
    IF resp.kind = "neterr" THEN CountUrlAccess(d, url)
    ELSE CacheWrite(CountUrlAccess(d, url), url, resp.body, t)

\* A hit that writes the entry back with a fresh time to live.
AfterHitRefreshing(d, url, t) ==
    RedisSetex(d, CacheKey(url), Expiration, d[CacheKey(url)].val, t)

\* The database after the hit path: `return cached.decode('utf-8')` issues no
\* command.
AfterHit(d, url, t) == d

GetPage(p, url) ==
    /\ MayCall(p)
    /\ ops' = ops + 1
    /\ pageCalls' = [pageCalls EXCEPT ![url] = @ + 1]
    /\ LET cached == RedisGet(db, CacheKey(url))
       IN \/ \* r.get(cache_key) fails
             /\ Finish(p, Raised("get_page", url, "ConnectionError"))
             /\ faulted' = TRUE
             /\ UNCHANGED <<db, httpCalls, lastFetch>>
          \/ \* hit: return cached.decode('utf-8')
             /\ CacheHit(cached)
             /\ LET r == Utf8Decode(cached.val)
                IN Finish(p, IF r.ok THEN Returned("get_page", url, StrVal(r.val))
                             ELSE Raised("get_page", url, "UnicodeDecodeError"))
             /\ db' = AfterHit(db, url, now)
             /\ UNCHANGED <<httpCalls, lastFetch, faulted>>
          \/ \* miss, and r.incr fails
             /\ ~CacheHit(cached)
             /\ Finish(p, Raised("get_page", url, "ConnectionError"))
             /\ faulted' = TRUE
             /\ UNCHANGED <<db, httpCalls, lastFetch>>
          \/ \* miss: count, then requests.get(url).text
             /\ ~CacheHit(cached)
             /\ httpCalls' = [httpCalls EXCEPT ![url] = @ + 1]
             /\ \E resp \in Responses :
                   \/ \* the request raises
                      /\ resp.kind = "neterr"
                      /\ db' = AfterFetch(db, url, resp, now)
                      /\ Finish(p, [Raised("get_page", url, "requests.ConnectionError")
                                      EXCEPT !.http = "neterr"])
                      /\ UNCHANGED <<lastFetch, faulted>>
                   \/ \* a response came, and r.setex fails
                      /\ resp.kind = "response"
                      /\ db' = CountUrlAccess(db, url)
                      /\ Finish(p, [Raised("get_page", url, "ConnectionError")
                                      EXCEPT !.http = "response",
                                             !.status = resp.status])
                      /\ faulted' = TRUE
                      /\ UNCHANGED lastFetch
                   \/ \* a response came: cache its text and return it
                      /\ resp.kind = "response"
                      /\ db' = AfterFetch(db, url, resp, now)
                      /\ Finish(p, [Returned("get_page", url, StrVal(resp.body))
                                      EXCEPT !.http = "response",
                                             !.status = resp.status])
                      /\ lastFetch' = [lastFetch EXCEPT ![url] =
                                         [at |-> now, body |-> resp.body]]
                      /\ UNCHANGED faulted
    /\ UNCHANGED <<now, facades, calls>>

(***************************************************************************)
(* Cache.replay: the transcript of a method's recorded calls.              *)
(***************************************************************************)
\* A transcript line with its two members exchanged.
ReplayLineSwapped(q, input, output) ==
    QualText(q) \o <<40, 42>> \o output \o <<41, 32, 45, 62, 32>> \o input

\* "{qualname}(*{input_str}) -> {output_str}"
ReplayLine(q, input, output) ==
    QualText(q) \o <<40, 42>> \o input \o <<41, 32, 45, 62, 32>> \o output

\* zip(inputs, outputs): pairs up to the end of the shorter list.
Zip(inputs, outputs) ==
    [i \in 1..(IF Len(inputs) <= Len(outputs) THEN Len(inputs) ELSE Len(outputs))
       |-> <<inputs[i], outputs[i]>>]

\* The lines the loop prints for the pairs, as far as both members decode.
RECURSIVE ReplayLines(_, _)
ReplayLines(q, pairs) ==
    IF pairs = <<>> THEN [ok |-> TRUE, val |-> <<>>]
    ELSE LET i == Utf8Decode(pairs[1][1])
             o == Utf8Decode(pairs[1][2])
         IN IF ~(i.ok /\ o.ok) THEN [ok |-> FALSE, val |-> <<>>]
            ELSE LET rest == ReplayLines(q, Tail(pairs))
                 IN [ok |-> rest.ok,
                     val |-> <<ReplayLine(q, i.val, o.val)>> \o rest.val]

\* A replay that reads the counter with INCR.
AfterReplayCounting(d, q) == RedisIncr(d, q)

\* The database after replay's commands (GET, LRANGE, LRANGE): none writes.
AfterReplay(d, q) == d

\* replay(method), for the method of qualified name q, over a connection of
\* its own.
Replay(p, q) ==
    /\ MayCall(p)
    /\ ops' = ops + 1
    /\ LET header == ReplayHeader(q, CounterValue(db, q))
           pairs  == Zip(RedisLrange(db, q \o ":inputs"),
                         RedisLrange(db, q \o ":outputs"))
           lines  == ReplayLines(q, pairs)
       IN \/ \* r.get(qualname) fails: nothing is printed
             /\ Finish(p, [Raised("replay", q, "ConnectionError")
                             EXCEPT !.cmds = <<"GET">>])
             /\ faulted' = TRUE
             /\ UNCHANGED db
          \/ \* an r.lrange fails: the header is out already
             /\ Finish(p, [Raised("replay", q, "ConnectionError")
                             EXCEPT !.out = <<header>>,
                                    !.cmds = <<"GET", "LRANGE">>])
             /\ faulted' = TRUE
             /\ UNCHANGED db
          \/ /\ Finish(p, [(IF lines.ok THEN Returned("replay", q, NoneVal)
                            ELSE Raised("replay", q, "UnicodeDecodeError"))
                             EXCEPT !.out = <<header>> \o lines.val,
                                    !.cmds = <<"GET", "LRANGE", "LRANGE">>])
             /\ db' = AfterReplay(db, q)
             /\ UNCHANGED faulted
    /\ UNCHANGED <<now, facades, calls, pageCalls, httpCalls, lastFetch>>

(***************************************************************************)
(* Time passes; Redis drops the entries whose time to live has run out.    *)
(* The clock is moved between calls only: store reads neither the clock    *)
(* nor an expiring entry, so time passing inside it is time passing after  *)
(* it.  And it is moved only while some page is cached: the program never  *)
(* reads the clock, so with no cached page a later instant is the same     *)
(* state.                                                                  *)
(***************************************************************************)
Advance(d) ==
    /\ \A p \in Procs : pc[p] = "idle"
    /\ \E u \in URLs : CacheKey(u) \in DOMAIN db
    /\ now + d <= MaxTime
    /\ now' = now + d
    /\ db' = Expire(db, now + d)
    /\ UNCHANGED <<facades, pc, frame, ret, ops, calls, pageCalls, httpCalls,
                   lastFetch, faulted>>

(***************************************************************************)
(* Specifications.                                                         *)
(***************************************************************************)
\* What one process may do next.
Step(p) ==
    \/ CacheInit(p)
    \/ \E data \in StoreValues : StoreCall(p, data)
    \/ StoreIncr(p)
    \/ StoreSet(p)
    \/ StoreHistOut(p)
    \/ \E key \in UUIDs, fn \in {"none", "raiser"} : Get(p, key, fn)
    \/ \E key \in UUIDs : GetStr(p, key)
    \/ \E key \in UUIDs : GetInt(p, key)
    \/ \E url \in URLs : GetPage(p, url)
    \/ \E q \in QualNames : Replay(p, q)

\* The single-threaded program: one process makes all the calls.
Next ==
    \/ Step(1)
    \/ \E d \in TimeSteps : Advance(d)

Spec == Init /\ [][Next]_vars

(***************************************************************************)
(* Several processes calling store on one shared backend, the commands of  *)
(* their invocations interleaved one by one.                               *)
(***************************************************************************)
\* The number of store invocations the processes start between them.
MaxStores == 2

\* The values the concurrent callers store: two that encode differently.
ConcValues == {StrVal(<<233>>), IntVal(0 - 3)}

\* One instance was constructed: the backend was flushed and is empty.
InitConc ==
    /\ db = EmptyDb
    /\ now = 0
    /\ facades = 1
    /\ pc = [p \in Procs |-> "idle"]
    /\ frame = [p \in Procs |-> NoFrame]
    /\ ret = [p \in Procs |-> Returned("none", "", NoneVal)]
    /\ ops = 0
    /\ calls = <<>>
    /\ pageCalls = [u \in URLs |-> 0]
    /\ httpCalls = [u \in URLs |-> 0]
    /\ lastFetch = [u \in URLs |-> NoFetch]
    /\ faulted = FALSE

\* Any process takes the next step of its store invocation, or starts one.
NextConc ==
    \E p \in Procs :
        \/ /\ Len(calls) < MaxStores
           /\ \E data \in ConcValues : StoreCall(p, data)
        \/ StoreIncr(p)
        \/ StoreSet(p)
        \/ StoreHistOut(p)

SpecConc == InitConc /\ [][NextConc]_vars

(***************************************************************************)
(* Reading the bookkeeping back.                                           *)
(***************************************************************************)
\* The entry at key k, if any.
Entry(d, k) == IF k \in DOMAIN d THEN <<d[k]>> ELSE <<>>

\* Process p's call ends in this step.
Done(p) == ret'[p].seq # ret[p].seq

\* Bytes that int() cannot read: empty, or holding a byte that is neither a
\* digit, a sign, an underscore nor white space.
NonNumeric(bs) ==
    \/ bs = <<>>
    \/ \E i \in 1..Len(bs) :
          ~(IsDigit(bs[i]) \/ bs[i] = 43 \/ bs[i] = 45 \/ bs[i] = 95 \/ IsSpace(bs[i]))

(***************************************************************************)
(* Claims.                                                                 *)
(***************************************************************************)

\* C1: after n store calls that all returned, with no flush in between, the
\* call counter is n, both histories have length n, and entry i of the inputs
\* is the argument representation of call i and entry i of the outputs is
\* the key call i returned.
C1_CounterAndHistoriesFollowCalls ==
    (\A i \in 1..Len(calls) : calls[i].status = "returned") =>
        LET n       == Len(calls)
            inputs  == RedisLrange(db, InputsKey)
            outputs == RedisLrange(db, OutputsKey)
        IN /\ CounterValue(db, QualName) = n
           /\ Len(inputs) = n
           /\ Len(outputs) = n
           /\ \A i \in 1..n :
                 /\ inputs[i] = Utf8Encode(ArgsRepr(calls[i].data)).val
                 /\ outputs[i] = Utf8Encode(KeyText(calls[i].key)).val

\* C1 witness: two completed store calls with different arguments and keys.
C1_Witness ==
    /\ Len(calls) = 2
    /\ \A i \in 1..2 : calls[i].status = "returned"
    /\ calls[1].data # calls[2].data
    /\ calls[1].key # calls[2].key
    /\ CounterValue(db, QualName) = 2

\* C2 (as claimed): without backend faults, the access counter of every URL
\* equals the number of get_page invocations made with that URL, hits and
\* misses alike.
C2_CounterEqualsInvocations ==
    ~faulted => \A u \in URLs : CounterValue(db, CountKey(u)) = pageCalls[u]

\* C3: when a call of get_page(u) fetched a non-empty body and returned it,
\* a later call of get_page(u) made before the expiration has elapsed (and
\* with no flush in between) does not invoke the underlying fetch, and it
\* returns the same content (or fails on the backend being unreachable).
C3_SecondCallInWindowIsServedFromCache ==
    [][\A p \in Procs, u \in URLs :
          ( /\ Done(p)
            /\ ret'[p].op = "get_page"
            /\ ret'[p].arg = u
            /\ lastFetch[u].at >= 0
            /\ lastFetch[u].body # <<>>
            /\ now < lastFetch[u].at + Expiration )
          => /\ httpCalls'[u] = httpCalls[u]
             /\ ret'[p].http = "none"
             /\ \/ /\ ret'[p].outcome = "return"
                   /\ ret'[p].val = StrVal(lastFetch[u].body)
                \/ ret'[p].exc = "ConnectionError"]_vars

\* C3 witness: a second call, later but inside the window, answered with the
\* first call's content after a single fetch.
C3_Witness ==
    \E u \in URLs :
        /\ ret[1].op = "get_page"
        /\ ret[1].arg = u
        /\ ret[1].outcome = "return"
        /\ ret[1].http = "none"
        /\ pageCalls[u] = 2
        /\ httpCalls[u] = 1
        /\ lastFetch[u].at = 0
        /\ now = 5
        /\ ret[1].val = StrVal(lastFetch[u].body)
        /\ lastFetch[u].body # <<>>

\* C4: when a call of get_page(u) fetched and returned, and the expiration
\* has elapsed since, the next call of get_page(u) that returns is a miss:
\* it invokes the underlying fetch again, returns what it fetched and has
\* written it to the cache with the same expiration, counted from now.
C4_CallAfterExpirationFetchesAgain ==
    [][\A p \in Procs, u \in URLs :
          ( /\ Done(p)
            /\ ret'[p].op = "get_page"
            /\ ret'[p].arg = u
            /\ lastFetch[u].at >= 0
            /\ now >= lastFetch[u].at + Expiration )
          => /\ ret'[p].exc # "ConnectionError" => httpCalls'[u] = httpCalls[u] + 1
             /\ ret'[p].outcome = "return" =>
                   /\ httpCalls'[u] = httpCalls[u] + 1
                   /\ ret'[p].http = "response"
                   /\ lastFetch'[u] = [at |-> now, body |-> ret'[p].val.val]
                   /\ Entry(db', CacheKey(u))
                        = <<StringEntry(Utf8Encode(ret'[p].val.val).val,
                                        now + Expiration)>>]_vars

\* C4 witness: a second fetch of the same URL, once the first entry expired.
C4_Witness ==
    \E u \in URLs :
        /\ ret[1].op = "get_page"
        /\ ret[1].arg = u
        /\ ret[1].outcome = "return"
        /\ ret[1].http = "response"
        /\ pageCalls[u] = 2
        /\ httpCalls[u] = 2
        /\ lastFetch[u].at >= Expiration
        /\ lastFetch[u].at = now
        /\ Entry(db, CacheKey(u))
             = <<StringEntry(Utf8Encode(ret[1].val.val).val, now + Expiration)>>

\* The last store call, when it returned and nothing was flushed since.
LastStored ==
    IF calls # <<>> /\ calls[Len(calls)].status = "returned"
    THEN <<calls[Len(calls)]>> ELSE <<>>

\* C5: get(store(v)) without a conversion function returns the bytes the
\* backend holds for v, the empty ones included, and get_str(store(s))
\* returns the text s (unless the backend is unreachable).
C5_GetReturnsWhatStoreWrote ==
    \A p \in Procs :
        ( /\ pc[p] = "idle"
          /\ LastStored # <<>>
          /\ ret[p].op \in {"get", "get_str"}
          /\ ret[p].fn \in {"none", "utf8"}
          /\ ret[p].arg = LastStored[1].key
          /\ ret[p].exc # "ConnectionError" )
        => LET v == LastStored[1].data
           IN /\ ret[p].outcome = "return"
              /\ ret[p].op = "get" => ret[p].val = BytesVal(EncodeValue(v).val)
              /\ (ret[p].op = "get_str" /\ v.kind = "str") => ret[p].val = v

\* C5 witness: the empty text stored and read back as empty bytes.
C5_Witness ==
    /\ pc[1] = "idle"
    /\ LastStored # <<>>
    /\ LastStored[1].data = StrVal(<<>>)
    /\ ret[1].op = "get"
    /\ ret[1].fn = "none"
    /\ ret[1].arg = LastStored[1].key
    /\ ret[1].outcome = "return"
    /\ ret[1].val = BytesVal(<<>>)

\* C6 (as claimed): when the underlying fetch of get_page(u) raises or
\* brings a non-success response, the call raises and the cache entry of u
\* is left as it was.
C6_FailedFetchRaisesAndIsNotCached ==
    [][\A p \in Procs, u \in URLs :
          ( /\ Done(p)
            /\ ret'[p].op = "get_page"
            /\ ret'[p].arg = u
            /\ \/ ret'[p].http = "neterr"
               \/ ret'[p].http = "response" /\ ret'[p].status \notin 200..299 )
          => /\ ret'[p].outcome = "raise"
             /\ Entry(db', CacheKey(u)) = Entry(db, CacheKey(u))]_vars

\* C6 (amended): when the underlying fetch raises, the call raises the same
\* error, the cache entry of u is left as it was, and the next get_page(u)
\* invokes the fetch again; a non-success response is no failure: its body
\* is returned and cached like any other.
C6_RaisingFetchIsNotCached ==
    [][\A p \in Procs, u \in URLs :
          (Done(p) /\ ret'[p].op = "get_page" /\ ret'[p].arg = u)
          => /\ ret'[p].http = "neterr" =>
                   /\ ret'[p].outcome = "raise"
                   /\ ret'[p].exc = "requests.ConnectionError"
                   /\ Entry(db', CacheKey(u)) = Entry(db, CacheKey(u))
                   /\ ~CacheHit(RedisGet(db', CacheKey(u)))
             /\ ( /\ ret'[p].http = "response"
                  /\ ret'[p].status \notin 200..299
                  /\ ret'[p].exc # "ConnectionError" ) =>
                   /\ ret'[p].outcome = "return"
                   /\ Entry(db', CacheKey(u))
                        = <<StringEntry(Utf8Encode(ret'[p].val.val).val,
                                        now + Expiration)>>
             /\ ( /\ ret[p].op = "get_page"
                  /\ ret[p].arg = u
                  /\ ret[p].http = "neterr"
                  /\ ret'[p].exc # "ConnectionError" ) =>
                   httpCalls'[u] = httpCalls[u] + 1]_vars

\* C6 witness: a call whose fetch raised, right after an earlier one that
\* also raised; the URL has no cache entry.
C6_Witness ==
    \E u \in URLs :
        /\ ret[1].op = "get_page"
        /\ ret[1].arg = u
        /\ ret[1].http = "neterr"
        /\ ret[1].outcome = "raise"
        /\ pageCalls[u] = 2
        /\ httpCalls[u] = 2
        /\ CacheKey(u) \notin DOMAIN db

\* C7: get, get_str and get_int on a key absent from the backend return
\* None whatever the conversion function, do not run the conversion
\* function, and leave the backend as it was.
C7_AbsentKeyGivesNone ==
    [][\A p \in Procs :
          ( /\ Done(p)
            /\ ret'[p].op \in {"get", "get_str", "get_int"}
            /\ ret'[p].arg \notin DOMAIN db )
          => /\ db' = db
             /\ ~ret'[p].conv
             /\ \/ ret'[p].outcome = "return" /\ ret'[p].val = NoneVal
                \/ ret'[p].exc = "ConnectionError"]_vars

\* C7 witness: get with the always-raising conversion function on an absent
\* key returned None.
C7_Witness ==
    /\ ret[1].op = "get"
    /\ ret[1].fn = "raiser"
    /\ ret[1].arg \notin DOMAIN db
    /\ ret[1].outcome = "return"
    /\ ret[1].val = NoneVal
    /\ ~ret[1].conv

\* C8: get_int on a present key whose bytes are not integer text raises
\* ValueError (it returns neither None nor the bytes), and the backend is
\* the same afterwards.
C8_GetIntOnNonNumericRaises ==
    [][\A p \in Procs :
          ( /\ Done(p)
            /\ ret'[p].op = "get_int"
            /\ ret'[p].arg \in DOMAIN db
            /\ NonNumeric(db[ret'[p].arg].val) )
          => /\ db' = db
             /\ ret'[p].outcome = "raise"
             /\ ret'[p].exc \in {"ValueError", "ConnectionError"}
             /\ ret'[p].exc = "ValueError" <=> ret'[p].conv]_vars

\* C8 witness: get_int on the key holding b'1.5' raised ValueError.
C8_Witness ==
    /\ ret[1].op = "get_int"
    /\ ret[1].exc = "ValueError"
    /\ ret[1].arg \in DOMAIN db
    /\ db[ret[1].arg].val = <<49, 46, 53>>

\* C9 (as claimed): whenever no store call is in progress, the inputs and
\* outputs histories have the same length, also after calls whose SET
\* failed.
C9_HistoriesHaveEqualLength ==
    ( /\ \A p \in Procs : pc[p] = "idle"
      /\ \A i \in 1..Len(calls) : calls[i].status \in {"returned", "set_failed"} )
    => Len(RedisLrange(db, InputsKey)) = Len(RedisLrange(db, OutputsKey))

\* C10: a Cache() that returns leaves the shared backend without any key:
\* stored values, call counter, histories, cached pages and access counters
\* are gone, also when some instance existed before.
C10_InitLeavesBackendEmpty ==
    [][\A p \in Procs :
          (Done(p) /\ ret'[p].op = "Cache" /\ ret'[p].outcome = "return")
          => /\ DOMAIN db' = {}
             /\ CounterValue(db', QualName) = 0
             /\ RedisLrange(db', InputsKey) = <<>>
             /\ RedisLrange(db', OutputsKey) = <<>>
             /\ \A k \in UUIDs : ~RedisGet(db', k).found
             /\ \A u \in URLs :
                   /\ ~RedisGet(db', CacheKey(u)).found
                   /\ CounterValue(db', CountKey(u)) = 0]_vars

\* C10 witness: a second instance was created and its flush removed the
\* first one's counter, histories and stored value.
C10_Witness ==
    /\ facades = 2
    /\ ret[1].op = "Cache"
    /\ ret[1].outcome = "return"
    /\ {QualName, InputsKey, OutputsKey} \subseteq ret[1].dropped
    /\ ret[1].dropped \cap UUIDs # {}
    /\ DOMAIN db = {}

\* C11: replay is read-only: whatever the backend holds, and however the
\* call ends, the backend after replay(method) is the backend before it
\* (stored values, call counter, both histories, cached pages, access
\* counters).
C11_ReplayIsReadOnly ==
    [][\A p \in Procs :
         (Done(p) /\ ret'[p].op = "replay") => db' = db]_vars

\* A replay has returned over a backend that holds recorded calls.
C11_Witness ==
    /\ ret[1].op = "replay"
    /\ ret[1].outcome = "return"
    /\ QualName \in DOMAIN db
    /\ InputsKey \in DOMAIN db

IsPrefix(a, b) == Len(a) <= Len(b) /\ \A i \in 1..Len(a) : a[i] = b[i]

\* C13: within one store invocation the backend commands are issued in the
\* order INCR of the call counter, SET of the value, RPUSH onto the inputs
\* history, RPUSH onto the outputs history; no history append precedes the
\* counter increment.
C13_CounterIncrementComesFirst ==
    \A p \in Procs :
        /\ IsPrefix(frame[p].cmds,
                    <<"INCR", "SET", "RPUSH inputs", "RPUSH outputs">>)
        /\ ret[p].op = "store" =>
              IsPrefix(ret[p].cmds,
                       <<"INCR", "SET", "RPUSH inputs", "RPUSH outputs">>)

\* C13, as the code has it: within one store invocation the backend commands
\* are issued in the order RPUSH onto the inputs history, INCR of the call
\* counter, SET of the value, RPUSH onto the outputs history; an invocation
\* that returns has issued all four.
C13_HistoryWrapsCountingWrapsWrite ==
    /\ \A p \in Procs :
          /\ ret[p].op = "store" =>
                IsPrefix(ret[p].cmds,
                         <<"RPUSH inputs", "INCR", "SET", "RPUSH outputs">>)
          /\ pc[p] = "idle" => frame[p].cmds = <<>>
          /\ pc[p] = "incr" => frame[p].cmds = <<"RPUSH inputs">>
          /\ pc[p] = "set" => frame[p].cmds = <<"RPUSH inputs", "INCR">>
          /\ pc[p] = "hist_out" => frame[p].cmds = <<"RPUSH inputs", "INCR", "SET">>
          /\ (ret[p].op = "store" /\ ret[p].outcome = "return") =>
                ret[p].cmds = <<"RPUSH inputs", "INCR", "SET", "RPUSH outputs">>

\* A store invocation has returned after its four commands.
C13_Witness ==
    /\ ret[1].op = "store"
    /\ ret[1].outcome = "return"
    /\ Len(ret[1].cmds) = 4
    /\ CounterValue(db, QualName) = 1

\* The number of store invocations since the last flush whose SET has
\* completed.
Written ==
    Cardinality({i \in 1..Len(calls) :
                   calls[i].status \in {"written", "returned", "outputs_failed"}})

\* C14: in a store invocation the counter is incremented before the value is
\* written, and the returned key goes into the outputs history only after
\* the write; so whenever the outputs history holds k entries the call
\* counter is at least k and at least k values have been written.
C14_OutputsTrailCounterAndWrites ==
    LET k == Len(RedisLrange(db, OutputsKey))
        n == CounterValue(db, QualName)
        w == Written
    IN /\ k <= n
       /\ k <= w
       /\ \A p \in Procs :
             /\ pc[p] \in {"set", "hist_out"} => n > frame[p].count0
             /\ pc[p] = "set" => calls[frame[p].idx].status = "running"
             /\ pc[p] = "hist_out" =>
                   /\ calls[frame[p].idx].status = "written"
                   /\ frame[p].key \in DOMAIN db
                   /\ db[frame[p].key].val = EncodeValue(frame[p].data).val
                   /\ k < w

\* One invocation has returned and a second one failed at its SET: one
\* output, counter 2, one value written.
C14_Witness ==
    /\ Len(RedisLrange(db, OutputsKey)) = 1
    /\ CounterValue(db, QualName) = 2
    /\ Written = 1
    /\ pc[1] = "idle"

\* C15: when the SET of a store invocation fails the fault reaches the caller
\* with no retry, the call counter has already gone up by one for that
\* invocation, no value is stored and nothing is appended to the outputs
\* history.
C15_FailedSetRaisesAfterCounting ==
    [][\A p \in Procs :
         ( /\ Done(p)
           /\ ret'[p].op = "store"
           /\ ret'[p].cmds # <<>>
           /\ ret'[p].cmds[Len(ret'[p].cmds)] = "SET" ) =>
            /\ ret'[p].outcome = "raise"
            /\ ret'[p].exc \in {"ConnectionError", "UnicodeEncodeError"}
            /\ Cardinality({i \in 1..Len(ret'[p].cmds) : ret'[p].cmds[i] = "SET"}) = 1
            /\ pc'[p] = "idle"
            /\ CounterValue(db', QualName) = frame[p].count0 + 1
            /\ db' = db
            /\ DOMAIN db' \cap UUIDs = DOMAIN db \cap UUIDs
            /\ RedisLrange(db', OutputsKey) = RedisLrange(db, OutputsKey)]_vars

\* A store invocation has raised at its SET on an empty backend: counter 1,
\* one input, no output, no value.
C15_Witness ==
    /\ ret[1].op = "store"
    /\ ret[1].outcome = "raise"
    /\ ret[1].exc = "ConnectionError"
    /\ ret[1].cmds = <<"RPUSH inputs", "INCR", "SET">>
    /\ CounterValue(db, QualName) = 1
    /\ Len(RedisLrange(db, InputsKey)) = 1
    /\ OutputsKey \notin DOMAIN db
    /\ DOMAIN db \cap UUIDs = {}

\* C16: a cache hit in get_page writes nothing and does not refresh the time
\* to live: the entry of a URL is written only on a miss, it carries the
\* expiry "time of that write + expiration", and it is present until then and
\* absent from then on, however many hits come in between.
C16_HitLeavesEntryAndExpiryAlone ==
    /\ [](\A u \in URLs :
            /\ CacheKey(u) \in DOMAIN db =>
                  /\ lastFetch[u].at >= 0
                  /\ db[CacheKey(u)].exp = lastFetch[u].at + Expiration
                  /\ now < lastFetch[u].at + Expiration
            /\ (lastFetch[u].at >= 0 /\ now < lastFetch[u].at + Expiration) =>
                  CacheKey(u) \in DOMAIN db)
    /\ [][\A u \in URLs :
            /\ \A p \in Procs :
                 ( /\ Done(p)
                   /\ ret'[p].op = "get_page"
                   /\ ret'[p].arg = u
                   /\ ret'[p].outcome = "return"
                   /\ ret'[p].http = "none" )
                 => /\ Entry(db', CacheKey(u)) = Entry(db, CacheKey(u))
                    /\ lastFetch'[u] = lastFetch[u]
            /\ ( /\ Entry(db', CacheKey(u)) # Entry(db, CacheKey(u))
                 /\ Entry(db', CacheKey(u)) # <<>> )
               => \E p \in Procs :
                    /\ Done(p)
                    /\ ret'[p].op = "get_page"
                    /\ ret'[p].arg = u
                    /\ ret'[p].http = "response"
                    /\ ~CacheHit(RedisGet(db, CacheKey(u)))
                    /\ lastFetch'[u].at = now]_vars

\* An entry written at t = 0 has been hit after that and still expires at
\* t = 0 + expiration.
C16_Witness ==
    \E u \in URLs :
        /\ ret[1].op = "get_page"
        /\ ret[1].arg = u
        /\ ret[1].outcome = "return"
        /\ ret[1].http = "none"
        /\ now \in {5, 6}
        /\ lastFetch[u].at = 0
        /\ CacheKey(u) \in DOMAIN db
        /\ db[CacheKey(u)].exp = Expiration

\* C17: a present, unexpired cache entry is a hit whatever its content: when
\* a call of get_page(u) fetched the empty text and returned it, a later call
\* of get_page(u) before the expiration has elapsed (no flush in between)
\* returns the cached empty text (or fails on the backend being unreachable)
\* without invoking the underlying fetch and without rewriting the entry.
C17_EmptyCachedPageIsAHit ==
    [][\A p \in Procs, u \in URLs :
          ( /\ Done(p)
            /\ ret'[p].op = "get_page"
            /\ ret'[p].arg = u
            /\ lastFetch[u].at >= 0
            /\ lastFetch[u].body = <<>>
            /\ now < lastFetch[u].at + Expiration )
          => /\ httpCalls'[u] = httpCalls[u]
             /\ ret'[p].http = "none"
             /\ Entry(db', CacheKey(u)) = Entry(db, CacheKey(u))
             /\ \/ /\ ret'[p].outcome = "return"
                   /\ ret'[p].val = StrVal(<<>>)
                \/ ret'[p].exc = "ConnectionError"]_vars

\* C18: with several processes calling store concurrently on one backend
\* (each command atomic, no flush), in every reachable state
\* len(outputs) <= number of values written <= call counter <= len(inputs),
\* and once all k started invocations have run to completion the counter
\* and both history lengths equal k.
C18_ConcurrentStoresKeepCountsOrdered ==
    LET nIn  == Len(RedisLrange(db, InputsKey))
        nOut == Len(RedisLrange(db, OutputsKey))
        n    == CounterValue(db, QualName)
    IN /\ nOut <= Written
       /\ Written <= n
       /\ n <= nIn
       /\ nIn <= Len(calls)
       /\ ( /\ \A p \in Procs : pc[p] = "idle"
            /\ \A i \in 1..Len(calls) : calls[i].status = "returned" )
          => /\ n = Len(calls)
             /\ nIn = Len(calls)
             /\ nOut = Len(calls)

\* Two invocations were under way at once, and both have returned.
C18_Witness ==
    /\ \A p \in Procs : pc[p] = "idle"
    /\ Len(calls) = 2
    /\ \A i \in 1..2 : calls[i].status = "returned"
    /\ ret[1].op = "store" /\ ret[2].op = "store"
    /\ ret[1].seq = ret[2].seq
    /\ CounterValue(db, QualName) = 2

\* C19: the index alignment of the two histories is not protected against
\* interleaving.  The input at index i is the one of the i-th invocation to
\* begin, while an invocation's key lands in the outputs history at the
\* place its own RPUSH finds, in the order the invocations finish; so with
\* two processes there is a state, both calls returned, where the key at
\* outputs[i] does not hold the value described by inputs[i] (C19_Witness).
C19_HistoriesFollowCommandOrder ==
    ( /\ \A p \in Procs : pc[p] = "idle"
      /\ \A i \in 1..Len(calls) : calls[i].status = "returned" )
    => LET ins  == RedisLrange(db, InputsKey)
           outs == RedisLrange(db, OutputsKey)
       IN /\ Len(ins) = Len(calls)
          /\ Len(outs) = Len(calls)
          /\ \A i \in 1..Len(calls) :
                /\ ins[i] = Utf8Encode(ArgsRepr(calls[i].data)).val
                /\ calls[i].pos \in 1..Len(outs)
                /\ outs[calls[i].pos] = Utf8Encode(KeyText(calls[i].key)).val
          /\ \A i, j \in 1..Len(calls) :
                calls[i].pos = calls[j].pos => i = j

\* Both calls have returned, the one that began first finished last: the key
\* at outputs[1] is the second invocation's, and what it holds is not the
\* value inputs[1] describes.
C19_Witness ==
    /\ \A p \in Procs : pc[p] = "idle"
    /\ Len(calls) = 2
    /\ \A i \in 1..2 : calls[i].status = "returned"
    /\ calls[1].pos = 2
    /\ calls[2].pos = 1
    /\ calls[1].key # calls[2].key
    /\ RedisLrange(db, InputsKey)[1] = Utf8Encode(ArgsRepr(calls[1].data)).val
    /\ RedisLrange(db, OutputsKey)[1] = Utf8Encode(KeyText(calls[2].key)).val
    /\ db[calls[2].key].val # EncodeValue(calls[1].data).val


=============================================================================
